---------------------------- MODULE Spec2Model ----------------------------
(***************************************************************************)
(* Storage engine of silentserver: the record codec (block_data.rs), the   *)
(* three-tree Index over sled (block_index.rs) and the segmented           *)
(* FlatFileStore with its boundary-crossing reader (flat_file_store.rs).   *)
(*                                                                         *)
(* Bytes are 0..255.  A u32/u64 that the program only ever turns into its  *)
(* little-endian bytes is kept as a natural number and converted with      *)
(* to_le_bytes; the CRC-32 value, which uses all 32 bits, is kept as its   *)
(* four little-endian bytes because TLC integers are 32-bit signed.        *)
(***************************************************************************)
EXTENDS Integers, Sequences, FiniteSets, TLC

(***************************************************************************)
(* Bounds of the model.                                                    *)
(***************************************************************************)
\* add_block calls made on one data directory (Spec)
MaxAdds == 3
\* heights an Index is driven to when hashes are chosen freely (SpecIndex)
MaxIndexHeight == 2
\* distinct block hashes offered to insert_block / remove_block (SpecIndex)
NumHashes == 3
\* blocks inserted in sequence before a re-open (SpecLong); more than 256
MaxLongHeight == 258
\* the reader's file counter is not driven past this (it grows on every
\* read at the end of the last file)
MaxReaderFile == 6
\* buffer lengths handed to read(): empty, SmallBuf, LargeBuf
SmallBuf == 32
LargeBuf == 300
\* tweaks of a record handed to the codec alone: 0..MaxTweaks (SpecCodec)
MaxTweaks == 2
\* pairs handed to one add_block_bulk call
MaxBatch == 3
\* stand-in for MAX_BLOCKDATA_SIZE (128 MiB at flat_file_store.rs:13),
\* scaled so that records of 0..2 tweaks fill, overflow and exceed a file
MAX_BLOCKDATA_SIZE == 100

(***************************************************************************)
(* Program constants.                                                      *)
(***************************************************************************)
TWEAK_SIZE == 33
HASH_SIZE == 32
MAGIC_BYTES == <<83, 80, 83, 68, 65, 84, 65, 49>>   \* b"SPSDATA1"

Byte == 0..255

Min(a, b) == IF a < b THEN a ELSE b

\* n copies of byte b
Repeat(b, n) == [i \in 1..n |-> b]

\* s[from+1 .. to] in Rust slice notation &s[from..to]
Slice(s, from, to) == [i \in 1..(to - from) |-> s[from + i]]

\* str::starts_with on sequences of characters
starts_with(s, p) == Len(s) >= Len(p) /\ [i \in 1..Len(p) |-> s[i]] = p

RECURSIVE Concat(_)
Concat(ss) == IF ss = <<>> THEN <<>> ELSE Head(ss) \o Concat(Tail(ss))

(***************************************************************************)
(* Integer <-> little-endian bytes.                                        *)
(***************************************************************************)
RECURSIVE to_le_bytes(_, _)
to_le_bytes(v, n) ==
    IF n = 0 THEN <<>> ELSE <<v % 256>> \o to_le_bytes(v \div 256, n - 1)

RECURSIVE from_le_bytes(_)
from_le_bytes(bs) ==
    IF bs = <<>> THEN 0 ELSE bs[1] + 256 * from_le_bytes(Tail(bs))

(***************************************************************************)
(* CRC-32 (IEEE, reflected polynomial EDB88320) as crc32fast::Hasher       *)
(* computes it, on a value held as four little-endian bytes.               *)
(***************************************************************************)
XorBit(a, b, w) == (((a \div w) + (b \div w)) % 2) * w

XorByte(a, b) ==
    XorBit(a, b, 1) + XorBit(a, b, 2) + XorBit(a, b, 4) + XorBit(a, b, 8)
    + XorBit(a, b, 16) + XorBit(a, b, 32) + XorBit(a, b, 64) + XorBit(a, b, 128)

Xor32(x, y) ==
    <<XorByte(x[1], y[1]), XorByte(x[2], y[2]),
      XorByte(x[3], y[3]), XorByte(x[4], y[4])>>

Shr1(x) ==
    <<(x[1] \div 2) + 128 * (x[2] % 2), (x[2] \div 2) + 128 * (x[3] % 2),
      (x[3] \div 2) + 128 * (x[4] % 2), x[4] \div 2>>

CrcPoly == <<32, 131, 184, 237>>     \* 0xEDB88320

CrcShift(x) == IF x[1] % 2 = 1 THEN Xor32(Shr1(x), CrcPoly) ELSE Shr1(x)

\* the table of the byte-wise algorithm: entry n + 1 is n shifted out in
\* eight steps
CrcTableEntry(n) ==
    CrcShift(CrcShift(CrcShift(CrcShift(
    CrcShift(CrcShift(CrcShift(CrcShift(<<n, 0, 0, 0>>))))))))

CrcTable == [i \in 1..256 |-> CrcTableEntry(i - 1)] \o <<>>

\* crc = table[(crc ^ b) & 0xff] ^ (crc >> 8)
CrcByte(crc, b) ==
    Xor32(CrcTable[XorByte(crc[1], b) + 1], <<crc[2], crc[3], crc[4], 0>>)

\* the bytes data[lo..hi] fed to the hasher in order.  The range is halved
\* and the left half's value tested (always a byte) before the right half is
\* entered, so that TLC's lazy arguments do not nest Len(data) deep.
RECURSIVE CrcUpdate(_, _, _, _)
CrcUpdate(crc, data, lo, hi) ==
    IF lo > hi THEN crc
    ELSE IF lo = hi THEN CrcByte(crc, data[lo])
    ELSE LET mid == (lo + hi) \div 2
             left == CrcUpdate(crc, data, lo, mid)
         IN  IF left[1] \in Byte
             THEN CrcUpdate(left, data, mid + 1, hi)
             ELSE left

crc32(data) ==
    Xor32(CrcUpdate(<<255, 255, 255, 255>>, data, 1, Len(data)),
          <<255, 255, 255, 255>>)

(***************************************************************************)
(* block_data.rs: BlockData and its codec.                                 *)
(***************************************************************************)
BlockData(blockhash, tweaks) == [blockhash |-> blockhash, tweaks |-> tweaks]

\* faulty variant: the count field holds the payload's length in bytes
serialize_count_in_bytes(block) ==
    LET len_tweaks == Len(block.tweaks) * TWEAK_SIZE
        crc == crc32(Concat(block.tweaks))
    IN  block.blockhash \o to_le_bytes(len_tweaks, 4) \o crc
        \o Concat(block.tweaks)

serialize(block) ==
    LET len_tweaks == Len(block.tweaks)
        crc == crc32(Concat(block.tweaks))
    IN  block.blockhash \o to_le_bytes(len_tweaks, 4) \o crc
        \o Concat(block.tweaks)

\* faulty variant: the CRC of the bytes at hand is compared before the
\* length of the payload is tested
deserialize_crc_before_length(data) ==
    IF Len(data) < HASH_SIZE + 8
    THEN [ok |-> FALSE, err |-> "DeserializeError"]
    ELSE
      LET blockhash == Slice(data, 0, HASH_SIZE)
          len_tweaks == from_le_bytes(Slice(data, HASH_SIZE, HASH_SIZE + 4))
          crc_stored == Slice(data, HASH_SIZE + 4, HASH_SIZE + 8)
          pos == HASH_SIZE + 8
          tweaks_bytes_len == len_tweaks * TWEAK_SIZE
          tweaks_data == Slice(data, pos, Min(Len(data), pos + tweaks_bytes_len))
      IN  IF crc32(tweaks_data) # crc_stored
          THEN [ok |-> FALSE, err |-> "CrcMismatch"]
          ELSE IF Len(data) < pos + tweaks_bytes_len
          THEN [ok |-> FALSE, err |-> "DeserializeError"]
          ELSE [ok |-> TRUE,
                block |-> BlockData(blockhash,
                    [i \in 1..len_tweaks |->
                        Slice(tweaks_data, (i - 1) * TWEAK_SIZE,
                              i * TWEAK_SIZE)])]

\* faulty variant: input longer than one record is rejected
deserialize_exact_length(data) ==
    IF Len(data) < HASH_SIZE + 8
    THEN [ok |-> FALSE, err |-> "DeserializeError"]
    ELSE
      LET blockhash == Slice(data, 0, HASH_SIZE)
          len_tweaks == from_le_bytes(Slice(data, HASH_SIZE, HASH_SIZE + 4))
          crc_stored == Slice(data, HASH_SIZE + 4, HASH_SIZE + 8)
          pos == HASH_SIZE + 8
          tweaks_bytes_len == len_tweaks * TWEAK_SIZE
      IN  IF Len(data) # pos + tweaks_bytes_len
          THEN [ok |-> FALSE, err |-> "DeserializeError"]
          ELSE
            LET tweaks_data == Slice(data, pos, pos + tweaks_bytes_len)
            IN  IF crc32(tweaks_data) # crc_stored
                THEN [ok |-> FALSE, err |-> "CrcMismatch"]
                ELSE [ok |-> TRUE,
                      block |-> BlockData(blockhash,
                          [i \in 1..len_tweaks |->
                              Slice(tweaks_data, (i - 1) * TWEAK_SIZE,
                                    i * TWEAK_SIZE)])]

\* faulty variant: the stored CRC is not compared
deserialize_without_crc_test(data) ==
    IF Len(data) < HASH_SIZE + 8
    THEN [ok |-> FALSE, err |-> "DeserializeError"]
    ELSE
      LET blockhash == Slice(data, 0, HASH_SIZE)
          len_tweaks == from_le_bytes(Slice(data, HASH_SIZE, HASH_SIZE + 4))
          pos == HASH_SIZE + 8
          tweaks_bytes_len == len_tweaks * TWEAK_SIZE
      IN  IF Len(data) < pos + tweaks_bytes_len
          THEN [ok |-> FALSE, err |-> "DeserializeError"]
          ELSE [ok |-> TRUE,
                block |-> BlockData(blockhash,
                    [i \in 1..len_tweaks |->
                        Slice(data, pos + (i - 1) * TWEAK_SIZE,
                              pos + i * TWEAK_SIZE)])]

deserialize(data) ==
    IF Len(data) < HASH_SIZE
    THEN [ok |-> FALSE, err |-> "DeserializeError"]
    ELSE IF Len(data) < HASH_SIZE + 4
    THEN [ok |-> FALSE, err |-> "DeserializeError"]
    ELSE IF Len(data) < HASH_SIZE + 8
    THEN [ok |-> FALSE, err |-> "DeserializeError"]
    ELSE
      LET blockhash == Slice(data, 0, HASH_SIZE)
          len_tweaks == from_le_bytes(Slice(data, HASH_SIZE, HASH_SIZE + 4))
          crc_stored == Slice(data, HASH_SIZE + 4, HASH_SIZE + 8)
          pos == HASH_SIZE + 8
          tweaks_bytes_len == len_tweaks * TWEAK_SIZE
      IN  IF Len(data) < pos + tweaks_bytes_len
          THEN [ok |-> FALSE, err |-> "DeserializeError"]
          ELSE
            LET tweaks_data == Slice(data, pos, pos + tweaks_bytes_len)
            IN  IF crc32(tweaks_data) # crc_stored
                THEN [ok |-> FALSE, err |-> "CrcMismatch"]
                ELSE [ok |-> TRUE,
                      block |-> BlockData(blockhash,
                          [i \in 1..len_tweaks |->
                              Slice(tweaks_data, (i - 1) * TWEAK_SIZE,
                                    i * TWEAK_SIZE)])]

(***************************************************************************)
(* sled: a tree is a finite map from byte-string keys to byte-string       *)
(* values, iterated in the lexicographic order of the key bytes.           *)
(***************************************************************************)
EmptyTree == [k \in {} |-> <<>>]

TreeInsert(t, k, v) == [x \in (DOMAIN t) \cup {k} |-> IF x = k THEN v ELSE t[x]]

TreeRemove(t, k) == [x \in (DOMAIN t) \ {k} |-> t[x]]

TreeGet(t, k) ==
    IF k \in DOMAIN t THEN [some |-> TRUE, val |-> t[k]] ELSE [some |-> FALSE]

SetMax(S) == CHOOSE m \in S : \A y \in S : y <= m

\* the greatest of a non-empty set of keys that agree on their first i-1
\* bytes, in byte-wise lexicographic order (a proper prefix sorts first)
RECURSIVE LexMax(_, _)
LexMax(keys, i) ==
    LET longer == {k \in keys : Len(k) >= i}
    IN  IF longer = {} THEN CHOOSE k \in keys : TRUE
        ELSE LET m == SetMax({k[i] : k \in longer})
             IN  LexMax({k \in longer : k[i] = m}, i + 1)

\* sled::Tree::last(): the entry with the greatest key, if any
TreeLast(t) ==
    IF DOMAIN t = {} THEN [some |-> FALSE]
    ELSE LET k == LexMax(DOMAIN t, 1)
         IN  [some |-> TRUE, key |-> k, val |-> t[k]]

(***************************************************************************)
(* block_index.rs: IndexEntry.                                             *)
(***************************************************************************)
IndexEntry(file_number, offset, length) ==
    [file_number |-> file_number, offset |-> offset, length |-> length]

\* faulty variant: offset and length written in each other's place
IndexEntry_serialize_swapped(entry) ==
    to_le_bytes(entry.file_number, 8) \o to_le_bytes(entry.length, 8)
    \o to_le_bytes(entry.offset, 8)

IndexEntry_serialize(entry) ==
    to_le_bytes(entry.file_number, 8) \o to_le_bytes(entry.offset, 8)
    \o to_le_bytes(entry.length, 8)

IndexEntry_deserialize(data) ==
    IF Len(data) # 24 THEN [some |-> FALSE]
    ELSE [some |-> TRUE,
          val |-> IndexEntry(from_le_bytes(Slice(data, 0, 8)),
                             from_le_bytes(Slice(data, 8, 16)),
                             from_le_bytes(Slice(data, 16, 24)))]

\* the value remove_block stores in place of a location: &[0u8; 1]
ORPHAN_MARKER == <<0>>

(***************************************************************************)
(* block_index.rs: Index.  An index value idx is the record of the struct  *)
(* fields; the three trees live on disk, next_height in memory.  sled      *)
(* failures (DbError) are not injected.                                    *)
(***************************************************************************)
MkIndex(db, h2h, h2ht, nh) ==
    [index_db |-> db, height_to_hash |-> h2h, hash_to_height |-> h2ht,
     next_height |-> nh]

\* Index::initialize on the trees found at db_path; recovered is
\* index_db.was_recovered().  Returns the pair (Index, is_new).
Index_initialize(db, h2h, h2ht, recovered) ==
    LET is_new == ~recovered
        data == TreeLast(h2h)
        next_height ==
            IF is_new THEN 0
            ELSE IF data.some THEN from_le_bytes(data.key) + 1
            ELSE 0
    IN  [index |-> MkIndex(db, h2h, h2ht, next_height), is_new |-> is_new]

\* faulty variant: a guard that only rejects heights below the expected one
insert_height_ok_at_least(height, next_height) == height >= next_height

\* the guard of insert_block
insert_height_ok(height, next_height) == height = next_height

insert_block(idx, height, blockhash, entry) ==
    IF ~insert_height_ok(height, idx.next_height)
    THEN [res |-> "InvalidHeight", index |-> idx]
    ELSE [res |-> "Ok",
          index |-> MkIndex(
              TreeInsert(idx.index_db, blockhash, IndexEntry_serialize(entry)),
              TreeInsert(idx.height_to_hash, to_le_bytes(height, 4), blockhash),
              TreeInsert(idx.hash_to_height, blockhash, to_le_bytes(height, 4)),
              idx.next_height + 1)]

\* faulty variant: the location is written before the height mappings
insert_block_write_order_location_first == <<"index_db", "height_to_hash", "hash_to_height">>

\* the trees insert_block writes, in the order of its statements
insert_block_write_order == <<"height_to_hash", "hash_to_height", "index_db">>

\* one write of insert_block: the insert into the named tree
insert_block_write(idx, tree, height, blockhash, entry) ==
    CASE tree = "height_to_hash" ->
             MkIndex(idx.index_db,
                     TreeInsert(idx.height_to_hash, to_le_bytes(height, 4), blockhash),
                     idx.hash_to_height, idx.next_height)
      [] tree = "hash_to_height" ->
             MkIndex(idx.index_db, idx.height_to_hash,
                     TreeInsert(idx.hash_to_height, blockhash, to_le_bytes(height, 4)),
                     idx.next_height)
      [] tree = "index_db" ->
             MkIndex(TreeInsert(idx.index_db, blockhash, IndexEntry_serialize(entry)),
                     idx.height_to_hash, idx.hash_to_height, idx.next_height)

\* the k-th write of insert_block; self.next_height += 1 follows the first
insert_block_step(idx, k, height, blockhash, entry) ==
    LET w == insert_block_write(idx, insert_block_write_order[k], height, blockhash, entry)
    IN  IF k = 1
        THEN MkIndex(w.index_db, w.height_to_hash, w.hash_to_height, w.next_height + 1)
        ELSE w

\* faulty variant: the orphan marker is not recognised
get_block_entry_without_orphan_test(idx, blockhash) ==
    LET data == TreeGet(idx.index_db, blockhash)
    IN  IF ~data.some THEN [ok |-> FALSE, err |-> "EntryNotFound"]
        ELSE LET e == IndexEntry_deserialize(data.val)
             IN  IF e.some THEN [ok |-> TRUE, val |-> e.val]
                 ELSE [ok |-> FALSE, err |-> "InvalidData"]

get_block_entry(idx, blockhash) ==
    LET data == TreeGet(idx.index_db, blockhash)
    IN  IF ~data.some THEN [ok |-> FALSE, err |-> "EntryNotFound"]
        ELSE IF Len(data.val) = 1 /\ data.val[1] = 0
        THEN [ok |-> FALSE, err |-> "OrphanedEntry"]
        ELSE LET e == IndexEntry_deserialize(data.val)
             IN  IF e.some THEN [ok |-> TRUE, val |-> e.val]
                 ELSE [ok |-> FALSE, err |-> "InvalidData"]

get_blockhash_by_height(idx, height) ==
    LET data == TreeGet(idx.height_to_hash, to_le_bytes(height, 4))
    IN  IF ~data.some THEN [ok |-> FALSE, err |-> "EntryNotFound"]
        ELSE IF Len(data.val) # 32 THEN [ok |-> FALSE, err |-> "InvalidData"]
        ELSE [ok |-> TRUE, val |-> data.val]

get_height_by_blockhash(idx, blockhash) ==
    LET data == TreeGet(idx.hash_to_height, blockhash)
    IN  IF ~data.some THEN [ok |-> FALSE, err |-> "EntryNotFound"]
        ELSE IF Len(data.val) # 4 THEN [ok |-> FALSE, err |-> "InvalidData"]
        ELSE [ok |-> TRUE, val |-> from_le_bytes(data.val)]

\* faulty variant: no tip test: any recorded block may be retracted
remove_is_tip_unchecked(height, next_height) == TRUE

\* the tip test of remove_block: height != self.next_height - 1.  The
\* subtraction is on u32; with next_height = 0 a debug build panics and a
\* release build wraps to 2^32 - 1, which no modelled height equals.
remove_is_tip(height, next_height) == next_height > 0 /\ height = next_height - 1

\* faulty variant: the expected height is not taken back
remove_new_height_kept(next_height) == next_height

\* self.next_height -= 1
remove_new_height(next_height) == next_height - 1

\* faulty variant: the location is deleted instead of being marked
remove_mark_orphan_deletes(db, blockhash) == TreeRemove(db, blockhash)

\* what remove_block leaves under the hash in index_db
remove_mark_orphan(db, blockhash) == TreeInsert(db, blockhash, ORPHAN_MARKER)

\* faulty variant: the hash keeps its height
remove_hash_to_height_kept(h2ht, blockhash) == h2ht

\* self.hash_to_height.remove(blockhash)
remove_hash_to_height(h2ht, blockhash) == TreeRemove(h2ht, blockhash)

remove_block(idx, blockhash) ==
    IF ~TreeGet(idx.index_db, blockhash).some
    THEN [res |-> "EntryNotFound", index |-> idx]
    ELSE LET h == get_height_by_blockhash(idx, blockhash)
         IN  IF ~h.ok THEN [res |-> "EntryNotFound", index |-> idx]
             ELSE IF ~remove_is_tip(h.val, idx.next_height)
             THEN [res |-> "InvalidHeight", index |-> idx]
             ELSE [res |-> "Ok",
                   index |-> MkIndex(
                       remove_mark_orphan(idx.index_db, blockhash),
                       TreeRemove(idx.height_to_hash, to_le_bytes(h.val, 4)),
                       remove_hash_to_height(idx.hash_to_height, blockhash),
                       remove_new_height(idx.next_height))]

get_current_height(idx) == idx.next_height - 1

(***************************************************************************)
(* flat_file_store.rs: FlatFileStore.  files maps the number n of every    *)
(* existing block_data/sps<n>.dat to its bytes.                            *)
(***************************************************************************)
\* A path is the sequence of its characters.
BLOCK_DATA_DIR_NAME ==
    <<"b", "l", "o", "c", "k", "_", "d", "a", "t", "a">>

DecimalDigit(d) == <<"0", "1", "2", "3", "4", "5", "6", "7", "8", "9">>[d + 1]

\* format!("sps{:06}.dat", file_number), for file numbers below 10^6
block_file_name(file_number) ==
    <<"s", "p", "s">>
    \o [i \in 1..6 |-> DecimalDigit((file_number \div 10^(6 - i)) % 10)]
    \o <<".", "d", "a", "t">>

\* PathBuf::join of a relative component
path_join(dir, name) == dir \o <<"/">> \o name

\* file.path().to_string_lossy().starts_with("sps"): DirEntry::path() is
\* the whole path, block_data_dir joined with the file name, so the test
\* is on the first characters of the data directory the caller passed.
path_starts_with_sps(dir, file_number) ==
    starts_with(path_join(path_join(dir, BLOCK_DATA_DIR_NAME),
                          block_file_name(file_number)),
                <<"s", "p", "s">>)

\* the loop that finds the highest numbered file, from current_file_number
RECURSIVE find_highest_file(_, _)
find_highest_file(fs, current_file_number) ==
    IF (current_file_number + 1) \in DOMAIN fs
    THEN find_highest_file(fs, current_file_number + 1)
    ELSE current_file_number

\* the fatal cross-check of initialize, on the bool Index::initialize
\* returned (bound to the name is_exists there) and block_data_exists
initialize_cross_check_fails(is_exists, block_data_exists) ==
    ~is_exists /\ block_data_exists

\* FlatFileStore::initialize(dir) on a data directory holding the block
\* files fs and, when recovered, a sled database with the three trees.
FlatFileStore_initialize(dir, fs, db, h2h, h2ht, recovered) ==
    LET block_data_exists == 0 \in DOMAIN fs IN
    IF ~block_data_exists /\ \E f \in DOMAIN fs : path_starts_with_sps(dir, f)
    THEN [res |-> "CorruptDB", files |-> fs, db_opened |-> FALSE,
          is_new |-> FALSE]
    ELSE
      LET fs1 == IF ~block_data_exists
                 THEN [n \in (DOMAIN fs) \cup {0} |->
                          IF n = 0 THEN MAGIC_BYTES ELSE fs[n]]
                 ELSE fs
          current_file_number ==
              IF ~block_data_exists THEN 0 ELSE find_highest_file(fs, 0)
          r == Index_initialize(db, h2h, h2ht, recovered)
          is_exists == r.is_new
      IN  IF initialize_cross_check_fails(is_exists, block_data_exists)
          THEN [res |-> "panic", files |-> fs1, db_opened |-> TRUE,
                is_new |-> r.is_new]
          ELSE [res |-> "Ok", files |-> fs1, db_opened |-> TRUE,
                is_new |-> r.is_new,
                current_file_number |-> current_file_number,
                index |-> r.index]

\* faulty variant: the new file is created but the magic bytes are not written
create_new_file_without_magic(fs, current_file_number) ==
    [current_file_number |-> current_file_number + 1,
     files |-> [n \in (DOMAIN fs) \cup {current_file_number + 1} |->
                  IF n = current_file_number + 1 THEN <<>> ELSE fs[n]]]

\* create_new_file: the next file, holding the magic bytes only
create_new_file(fs, current_file_number) ==
    [current_file_number |-> current_file_number + 1,
     files |-> [n \in (DOMAIN fs) \cup {current_file_number + 1} |->
                  IF n = current_file_number + 1 THEN MAGIC_BYTES ELSE fs[n]]]

\* the rotation test of add_block
file_is_full(offset, len) == offset + len >= MAX_BLOCKDATA_SIZE

\* the file add_block writes the record to: file_path is computed from
\* current_file_number on entry, and the handle re-opened after a rotation
\* is opened on that same file_path
append_target(file_number_on_entry, file_number_now) == file_number_on_entry

\* the offset add_block records: the end of the file opened on entry
entry_offset(offset_on_entry) == offset_on_entry

\* FlatFileStore::add_block.  A failing insert_block is unwrapped with
\* expect(), so it panics after the record has been written.
FlatFileStore_add_block(fs, current_file_number, idx, block_data, height) ==
    LET offset == Len(fs[current_file_number])
        serialized == serialize(block_data)
        rotate == file_is_full(offset, Len(serialized))
        created == IF rotate THEN create_new_file(fs, current_file_number)
                   ELSE [current_file_number |-> current_file_number,
                         files |-> fs]
        target == append_target(current_file_number,
                                created.current_file_number)
        fs2 == [created.files EXCEPT ![target] = @ \o serialized]
        entry == IndexEntry(created.current_file_number, entry_offset(offset),
                            Len(serialized))
        ins == insert_block(idx, height, block_data.blockhash, entry)
    IN  [res |-> IF ins.res = "Ok" THEN "Ok" ELSE "panic",
         files |-> fs2,
         current_file_number |-> created.current_file_number,
         index |-> ins.index,
         entry |-> entry,
         rotated |-> rotate]

\* FlatFileStore::add_block_bulk from pair i on: add_block on the zipped
\* pairs in order, stopping at the first that does not return Ok.  applied
\* counts the pairs add_block returned Ok for, entries are their locations.
RECURSIVE FlatFileStore_add_block_bulk(_, _, _, _, _, _)
FlatFileStore_add_block_bulk(fs, current_file_number, idx, blocks, heights, i) ==
    IF i > Min(Len(blocks), Len(heights))
    THEN [res |-> "Ok", files |-> fs,
          current_file_number |-> current_file_number, index |-> idx,
          applied |-> i - 1, entries |-> <<>>]
    ELSE LET r == FlatFileStore_add_block(fs, current_file_number, idx,
                                          blocks[i], heights[i])
         IN  IF r.res # "Ok"
             THEN [res |-> r.res, files |-> r.files,
                   current_file_number |-> r.current_file_number,
                   index |-> r.index, applied |-> i - 1, entries |-> <<>>]
             ELSE LET rest == FlatFileStore_add_block_bulk(
                                  r.files, r.current_file_number, r.index,
                                  blocks, heights, i + 1)
                  IN  [rest EXCEPT !.entries = <<r.entry>> \o @]

(***************************************************************************)
(* flat_file_store.rs: BlockDataReader.  file is the number of the file    *)
(* the BufReader holds open, stream_pos its position in that file.         *)
(***************************************************************************)
NoReader == [open |-> FALSE]

get_block_stream_from_offset(fs, entry) ==
    IF entry.file_number \notin DOMAIN fs
    THEN [ok |-> FALSE, err |-> "IoError"]
    ELSE [ok |-> TRUE,
          reader |-> [open |-> TRUE,
                      current_file_number |-> entry.file_number,
                      file |-> entry.file_number,
                      stream_pos |-> 0,
                      current_position |-> entry.offset]]

get_block_stream(fs, idx, blockhash) ==
    LET entry == get_block_entry(idx, blockhash)
    IN  IF ~entry.ok THEN [ok |-> FALSE, err |-> entry.err]
        ELSE get_block_stream_from_offset(fs, entry.val)

get_block_stream_from_height(fs, idx, height) ==
    LET blockhash == get_blockhash_by_height(idx, height)
    IN  IF ~blockhash.ok THEN [ok |-> FALSE, err |-> blockhash.err]
        ELSE get_block_stream(fs, idx, blockhash.val)

\* the position move_to_next_file leaves the reader at in the new file
next_file_start == Len(MAGIC_BYTES)

\* faulty variant: the position is set before the next file is looked for
position_after_failed_move_reset(current_position) == next_file_start

\* current_position when move_to_next_file fails: the early return at
\* flat_file_store.rs:229 comes before the assignment at line 239
position_after_failed_move(current_position) == current_position

\* Read::read with a buffer of buf_len bytes: the reader after the call and
\* the bytes placed in the buffer.  The BufReader over a regular file hands
\* out min(buf_len, bytes left in the file).
RECURSIVE BlockDataReader_read(_, _, _)
BlockDataReader_read(fs, r, buf_len) ==
    LET pos == r.current_position
        left == IF Len(fs[r.file]) > pos THEN Len(fs[r.file]) - pos ELSE 0
        bytes_read == Min(buf_len, left)
        data == Slice(fs[r.file], pos, pos + bytes_read)
        r1 == [r EXCEPT !.stream_pos = pos + bytes_read,
                        !.current_position = pos + bytes_read]
    IN  IF bytes_read # 0 THEN [reader |-> r1, data |-> data]
        ELSE \* move_to_next_file
          LET r2 == [r1 EXCEPT !.current_file_number = @ + 1]
          IN  IF r2.current_file_number \notin DOMAIN fs
              THEN [reader |->
                        [r2 EXCEPT !.current_position =
                                       position_after_failed_move(@)],
                    data |-> <<>>]
              ELSE BlockDataReader_read(fs,
                       [r2 EXCEPT !.file = r2.current_file_number,
                                  !.stream_pos = next_file_start,
                                  !.current_position = next_file_start],
                       buf_len)

\* Read::read_to_end: read with a non-empty buffer until read returns 0
RECURSIVE read_to_end(_, _, _)
read_to_end(fs, r, acc) ==
    LET x == BlockDataReader_read(fs, r, SmallBuf)
    IN  IF Len(x.data) = 0 THEN [reader |-> x.reader, data |-> acc]
        ELSE read_to_end(fs, x.reader, acc \o x.data)

(***************************************************************************)
(* Inputs.                                                                 *)
(***************************************************************************)
\* the blocks offered to add_block: block i has hash [i; 32] and i-1 tweaks
NumBlocks == 3

Tweak(i, j) == Repeat(16 * i + j, TWEAK_SIZE)

BlockNo(i) ==
    BlockData(Repeat(i, HASH_SIZE), [j \in 1..(i - 1) |-> Tweak(i, j)])

Blocks == {BlockNo(i) : i \in 1..NumBlocks}

BlockOfHash(h) == CHOOSE b \in Blocks : b.blockhash = h

\* the hashes and locations offered to a stand-alone Index
Hashes == {Repeat(i, HASH_SIZE) : i \in 1..NumHashes}

Entries == {IndexEntry(0, 8, 40), IndexEntry(1, 8, 73)}

\* the hashes offered to an Index whose inserts can be cut short
StepHashes == {Repeat(1, HASH_SIZE), Repeat(2, HASH_SIZE)}

\* the hash inserted at height h in a long sequential run
HashAt(h) == to_le_bytes(h, 4) \o Repeat(0, HASH_SIZE - 4)

BufLens == {0, SmallBuf, LargeBuf}

\* the records offered to the codec alone: a hash of 32 different bytes or
\* of 32 equal bytes, and every sequence of 0..MaxTweaks tweaks drawn from
\* two values (one all 0xff, one of 33 different bytes)
CodecHashes == {[i \in 1..HASH_SIZE |-> i], Repeat(255, HASH_SIZE)}

CodecTweak(k) ==
    [i \in 1..TWEAK_SIZE |-> (255 * (k % 2) + 37 * i * (k - 1)) % 256]

CodecTweaks == {CodecTweak(1), CodecTweak(2)}

CodecBlocks ==
    {BlockData(h, t) :
        h \in CodecHashes,
        t \in UNION {[1..n -> CodecTweaks] : n \in 0..MaxTweaks}}

\* bytes that follow a record in a stream: a single byte, a run of 0xff
\* and another record
CodecTails ==
    {<<0>>, Repeat(255, TWEAK_SIZE),
     serialize(BlockData(Repeat(255, HASH_SIZE), <<CodecTweak(1)>>))}

\* data with bit number bit (0 is the lowest bit of the first byte) of its
\* tweak payload inverted; the payload starts after hash, count and CRC
flip_payload_bit(data, bit) ==
    [data EXCEPT ![HASH_SIZE + 8 + (bit \div 8) + 1] =
                     XorByte(@, 2^(bit % 8))]

(***************************************************************************)
(* State.                                                                  *)
(***************************************************************************)
VARIABLES
    \* on disk: the sled database (whether it exists, and its three trees)
    db_exists, index_db, height_to_hash, hash_to_height,
    \* the data directory the store is opened on (its path)
    data_dir,
    \* on disk: the block files
    files,
    \* in memory: a live Index (alone or owned by the store), its next_height
    index_open, next_height,
    \* in memory: a live FlatFileStore and its current_file_number
    store_open, current_file_number,
    \* in memory: a BlockDataReader borrowed from the store
    reader,
    \* history: the (height, hash, entry) triples of the recorded chain, in
    \* order (a successful insert appends, a successful remove drops the tip)
    chain,
    \* history: for every hash a successful insert_block or remove_block was
    \* made on, the most recent of them
    last_on_hash,
    \* an insert_block call that has started and not yet returned: its
    \* arguments and the number of tree writes it has made
    pending,
    \* history: the last call, its arguments and what it returned
    lastOp

indexVars == <<db_exists, index_db, height_to_hash, hash_to_height,
               index_open, next_height>>
storeVars == <<data_dir, files, store_open, current_file_number, reader>>
vars == <<data_dir, db_exists, index_db, height_to_hash, hash_to_height, files,
          index_open, next_height, store_open, current_file_number, reader,
          chain, last_on_hash, pending, lastOp>>

\* the live Index as a value
Idx == MkIndex(index_db, height_to_hash, hash_to_height, next_height)

\* no insert_block call is under way
NoCall == [active |-> FALSE]

\* the data directory of the tests: an absolute path (env::temp_dir())
AbsoluteDir == <<"/", "t", "m", "p", "/", "d">>

\* a relative data directory whose name begins with "sps"
SpsDir == <<"s", "p", "s", "d">>

\* nothing on disk and no live object
InitDisk ==
    /\ db_exists = FALSE
    /\ index_db = EmptyTree
    /\ height_to_hash = EmptyTree
    /\ hash_to_height = EmptyTree
    /\ files = EmptyTree
    /\ index_open = FALSE
    /\ next_height = 0
    /\ store_open = FALSE
    /\ current_file_number = 0
    /\ reader = NoReader
    /\ chain = <<>>
    /\ last_on_hash = EmptyTree
    /\ pending = NoCall

\* an empty data directory at an absolute path
Init == data_dir = AbsoluteDir /\ InitDisk /\ lastOp = [op |-> "none"]

\* an empty data directory at a path the caller chose
InitDir ==
    data_dir \in {AbsoluteDir, SpsDir} /\ InitDisk /\ lastOp = [op |-> "none"]

\* the inserts of the applied pairs of a batch, in order
RECURSIVE RecordInserts(_, _, _)
RecordInserts(h, blocks, entries) ==
    IF entries = <<>> THEN h
    ELSE RecordInserts(TreeInsert(h, Head(blocks).blockhash,
                                  [op |-> "insert_block",
                                   entry |-> Head(entries)]),
                       Tail(blocks), Tail(entries))

SetIndex(idx) ==
    /\ index_db' = idx.index_db
    /\ height_to_hash' = idx.height_to_hash
    /\ hash_to_height' = idx.hash_to_height
    /\ next_height' = idx.next_height

(***************************************************************************)
(* A stand-alone Index.                                                    *)
(***************************************************************************)
IndexInitialize ==
    /\ ~index_open /\ ~store_open
    /\ \E r \in {Index_initialize(index_db, height_to_hash, hash_to_height,
                                 db_exists)} :
           /\ SetIndex(r.index)
           /\ lastOp' = [op |-> "Index_initialize", is_new |-> r.is_new,
                         reopened |-> db_exists]
    /\ db_exists' = TRUE
    /\ index_open' = TRUE
    /\ UNCHANGED <<storeVars, chain, last_on_hash, pending>>

\* the Index is dropped: the trees stay on disk, next_height is lost
IndexClose ==
    /\ index_open /\ ~store_open /\ ~pending.active
    /\ index_open' = FALSE
    /\ next_height' = 0
    /\ lastOp' = [op |-> "Index_drop"]
    /\ UNCHANGED <<db_exists, index_db, height_to_hash, hash_to_height,
                   storeVars, chain, last_on_hash, pending>>

InsertBlock(height, blockhash, entry) ==
    /\ index_open /\ ~store_open /\ ~pending.active
    /\ \E r \in {insert_block(Idx, height, blockhash, entry)} :
           /\ SetIndex(r.index)
           /\ chain' = IF r.res = "Ok"
                       THEN Append(chain, [height |-> height,
                                           hash |-> blockhash,
                                           entry |-> entry])
                       ELSE chain
           /\ last_on_hash' =
                  IF r.res = "Ok"
                  THEN TreeInsert(last_on_hash, blockhash,
                                  [op |-> "insert_block", entry |-> entry])
                  ELSE last_on_hash
           /\ lastOp' = [op |-> "insert_block", height |-> height,
                         hash |-> blockhash, entry |-> entry, res |-> r.res]
    /\ UNCHANGED <<db_exists, index_open, storeVars, pending>>

RemoveBlock(blockhash) ==
    /\ index_open /\ ~store_open /\ ~pending.active
    /\ \E r \in {remove_block(Idx, blockhash)} :
           /\ SetIndex(r.index)
           /\ chain' = IF r.res = "Ok" THEN SubSeq(chain, 1, Len(chain) - 1)
                       ELSE chain
           /\ last_on_hash' =
                  IF r.res = "Ok"
                  THEN TreeInsert(last_on_hash, blockhash,
                                  [op |-> "remove_block"])
                  ELSE last_on_hash
           /\ lastOp' = [op |-> "remove_block", hash |-> blockhash,
                         res |-> r.res, tip |-> next_height - 1]
    /\ UNCHANGED <<db_exists, index_open, storeVars, pending>>

\* the next block of a long sequential run
InsertNext ==
    /\ next_height < MaxLongHeight
    /\ Len(chain) < MaxLongHeight
    /\ InsertBlock(next_height, HashAt(next_height), IndexEntry(0, 8, 40))

(***************************************************************************)
(* insert_block one write at a time.  Every sled insert is taken to be on  *)
(* disk when it returns, and a crash keeps exactly the writes made so far: *)
(* sled recovers a prefix of its log.                                      *)
(***************************************************************************)
\* the call starts: the height guard, before any write
InsertBegin(height, blockhash, entry) ==
    /\ index_open /\ ~store_open /\ ~pending.active
    /\ IF insert_height_ok(height, next_height)
       THEN /\ pending' = [active |-> TRUE, done |-> 0, height |-> height,
                           hash |-> blockhash, entry |-> entry,
                           old |-> TreeGet(index_db, blockhash)]
            /\ lastOp' = [op |-> "insert_block_begin", height |-> height,
                          hash |-> blockhash, entry |-> entry]
       ELSE /\ pending' = pending
            /\ lastOp' = [op |-> "insert_block", height |-> height,
                          hash |-> blockhash, entry |-> entry,
                          res |-> "InvalidHeight"]
    /\ UNCHANGED <<indexVars, storeVars, chain, last_on_hash>>

\* the next write of the call
InsertWrite ==
    /\ pending.active /\ pending.done < Len(insert_block_write_order)
    /\ SetIndex(insert_block_step(Idx, pending.done + 1, pending.height,
                                  pending.hash, pending.entry))
    /\ pending' = [pending EXCEPT !.done = @ + 1]
    /\ lastOp' = [op |-> "insert_block_write", done |-> pending.done + 1]
    /\ UNCHANGED <<db_exists, index_open, storeVars, chain, last_on_hash>>

\* the call returns Ok(())
InsertReturn ==
    /\ pending.active /\ pending.done = Len(insert_block_write_order)
    /\ pending' = NoCall
    /\ chain' = Append(chain, [height |-> pending.height, hash |-> pending.hash,
                               entry |-> pending.entry])
    /\ last_on_hash' = TreeInsert(last_on_hash, pending.hash,
                                  [op |-> "insert_block", entry |-> pending.entry])
    /\ lastOp' = [op |-> "insert_block", height |-> pending.height,
                  hash |-> pending.hash, entry |-> pending.entry, res |-> "Ok"]
    /\ UNCHANGED <<indexVars, storeVars>>

\* the process dies inside the call: the trees keep the writes made
Crash ==
    /\ pending.active
    /\ index_open' = FALSE
    /\ next_height' = 0
    /\ pending' = NoCall
    /\ lastOp' = [op |-> "crash", done |-> pending.done, height |-> pending.height,
                  hash |-> pending.hash, entry |-> pending.entry,
                  old |-> pending.old]
    /\ UNCHANGED <<db_exists, index_db, height_to_hash, hash_to_height,
                   storeVars, chain, last_on_hash>>

(***************************************************************************)
(* A FlatFileStore and its reader.                                         *)
(***************************************************************************)
StoreInitialize ==
    /\ ~store_open /\ ~index_open
    /\ \E r \in {FlatFileStore_initialize(data_dir, files, index_db,
                                         height_to_hash, hash_to_height,
                                         db_exists)} :
           /\ files' = r.files
           /\ db_exists' = (db_exists \/ r.db_opened)
           /\ store_open' = (r.res = "Ok")
           /\ index_open' = (r.res = "Ok")
           /\ current_file_number' =
                  IF r.res = "Ok" THEN r.current_file_number ELSE 0
           /\ next_height' = IF r.res = "Ok" THEN r.index.next_height ELSE 0
           /\ lastOp' = [op |-> "initialize", res |-> r.res,
                         file0_existed |-> 0 \in DOMAIN files,
                         files_before |-> DOMAIN files,
                         index_existed |-> db_exists,
                         is_new |-> r.is_new]
    /\ UNCHANGED <<data_dir, index_db, height_to_hash, hash_to_height,
                   reader, chain, last_on_hash, pending>>

\* the store is dropped, and its Index with it
StoreClose ==
    /\ store_open /\ ~reader.open
    /\ store_open' = FALSE
    /\ index_open' = FALSE
    /\ current_file_number' = 0
    /\ next_height' = 0
    /\ lastOp' = [op |-> "drop"]
    /\ UNCHANGED <<data_dir, db_exists, index_db, height_to_hash,
                   hash_to_height, files, reader, chain, last_on_hash, pending>>

\* add_block; on a panic the process is gone and only the disk remains
AddBlock(block_data, height) ==
    /\ store_open /\ ~reader.open
    /\ Len(chain) < MaxAdds
    /\ \E r \in {FlatFileStore_add_block(files, current_file_number, Idx,
                                        block_data, height)} :
           /\ files' = r.files
           /\ index_db' = r.index.index_db
           /\ height_to_hash' = r.index.height_to_hash
           /\ hash_to_height' = r.index.hash_to_height
           /\ store_open' = (r.res = "Ok")
           /\ index_open' = (r.res = "Ok")
           /\ current_file_number' =
                  IF r.res = "Ok" THEN r.current_file_number ELSE 0
           /\ next_height' = IF r.res = "Ok" THEN r.index.next_height ELSE 0
           /\ chain' = IF r.res = "Ok"
                       THEN Append(chain, [height |-> height,
                                           hash |-> block_data.blockhash,
                                           entry |-> r.entry])
                       ELSE chain
           /\ last_on_hash' =
                  IF r.res = "Ok"
                  THEN TreeInsert(last_on_hash, block_data.blockhash,
                                  [op |-> "insert_block", entry |-> r.entry])
                  ELSE last_on_hash
           /\ lastOp' = [op |-> "add_block", hash |-> block_data.blockhash,
                         height |-> height, res |-> r.res,
                         rotated |-> r.rotated, entry |-> r.entry]
    /\ UNCHANGED <<data_dir, db_exists, reader, pending>>

\* add_block_bulk; the chain grows by the pairs that were applied
AddBlockBulk(blocks, heights) ==
    /\ store_open /\ ~reader.open
    /\ Len(chain) + Len(blocks) <= MaxAdds
    /\ \E r \in {FlatFileStore_add_block_bulk(files, current_file_number, Idx,
                                             blocks, heights, 1)} :
           /\ files' = r.files
           /\ index_db' = r.index.index_db
           /\ height_to_hash' = r.index.height_to_hash
           /\ hash_to_height' = r.index.hash_to_height
           /\ store_open' = (r.res = "Ok")
           /\ index_open' = (r.res = "Ok")
           /\ current_file_number' =
                  IF r.res = "Ok" THEN r.current_file_number ELSE 0
           /\ next_height' = IF r.res = "Ok" THEN r.index.next_height ELSE 0
           /\ chain' = chain \o [i \in 1..r.applied |->
                                    [height |-> heights[i],
                                     hash |-> blocks[i].blockhash,
                                     entry |-> r.entries[i]]]
           /\ last_on_hash' = RecordInserts(last_on_hash, blocks, r.entries)
           /\ lastOp' = [op |-> "add_block_bulk", blocks |-> blocks,
                         heights |-> heights, res |-> r.res,
                         applied |-> r.applied,
                         before |-> [files |-> files,
                                     current_file_number |->
                                         current_file_number,
                                     index |-> Idx]]
    /\ UNCHANGED <<data_dir, db_exists, reader, pending>>

OpenStream(r, how, arg) ==
    /\ reader' = IF r.ok THEN r.reader ELSE NoReader
    /\ lastOp' = [op |-> how, arg |-> arg,
                  res |-> IF r.ok THEN "Ok" ELSE r.err]
    /\ UNCHANGED <<indexVars, data_dir, files, store_open,
                   current_file_number, chain, last_on_hash, pending>>

GetBlockStream(blockhash) ==
    /\ store_open /\ ~reader.open
    /\ OpenStream(get_block_stream(files, Idx, blockhash),
                  "get_block_stream", blockhash)

GetBlockStreamFromHeight(height) ==
    /\ store_open /\ ~reader.open
    /\ OpenStream(get_block_stream_from_height(files, Idx, height),
                  "get_block_stream_from_height", height)

Read(buf_len) ==
    /\ reader.open
    /\ reader.current_file_number < MaxReaderFile
    /\ \E r \in {BlockDataReader_read(files, reader, buf_len)} :
           /\ reader' = r.reader
           /\ lastOp' = [op |-> "read", buf_len |-> buf_len, data |-> r.data,
                         before |-> reader]
    /\ UNCHANGED <<indexVars, data_dir, files, store_open,
                   current_file_number, chain, last_on_hash, pending>>

ReadToEnd ==
    /\ reader.open
    /\ reader.current_file_number < MaxReaderFile
    /\ \E r \in {read_to_end(files, reader, <<>>)} :
           /\ reader' = r.reader
           /\ lastOp' = [op |-> "read_to_end", data |-> r.data,
                         before |-> reader]
    /\ UNCHANGED <<indexVars, data_dir, files, store_open,
                   current_file_number, chain, last_on_hash, pending>>

DropReader ==
    /\ reader.open
    /\ reader' = NoReader
    /\ lastOp' = [op |-> "drop_reader"]
    /\ UNCHANGED <<indexVars, data_dir, files, store_open,
                   current_file_number, chain, last_on_hash, pending>>

(***************************************************************************)
(* The codec alone: a record is serialized, the bytes may be damaged, and  *)
(* they are deserialized.                                                  *)
(***************************************************************************)
codecFrame == <<data_dir, indexVars, files, store_open, current_file_number,
                reader, chain, last_on_hash, pending>>

\* a record to encode is at hand
InitCodec ==
    /\ data_dir = AbsoluteDir
    /\ InitDisk
    /\ \E b \in CodecBlocks : lastOp = [op |-> "input", block |-> b]

Serialize ==
    /\ lastOp.op = "input"
    /\ lastOp' = [op |-> "serialize", block |-> lastOp.block,
                  data |-> serialize(lastOp.block), change |-> "none"]
    /\ UNCHANGED codecFrame

\* one bit of the tweak payload changes between writing and reading
FlipBit(bit) ==
    /\ lastOp.op = "serialize" /\ lastOp.change = "none"
    /\ bit < 8 * TWEAK_SIZE * Len(lastOp.block.tweaks)
    /\ lastOp' = [lastOp EXCEPT !.data = flip_payload_bit(@, bit),
                                !.change = "flip"]
    /\ UNCHANGED codecFrame

\* only the first n bytes of the record are there to be read
Truncate(n) ==
    /\ lastOp.op = "serialize" /\ lastOp.change = "none"
    /\ n < Len(lastOp.data)
    /\ lastOp' = [lastOp EXCEPT !.data = Slice(@, 0, n),
                                !.change = "truncate"]
    /\ UNCHANGED codecFrame

\* the record is followed by more bytes of the stream
AppendBytes(x) ==
    /\ lastOp.op = "serialize" /\ lastOp.change = "none"
    /\ lastOp' = [lastOp EXCEPT !.data = @ \o x, !.change = "append"]
    /\ UNCHANGED codecFrame

Deserialize ==
    /\ lastOp.op = "serialize"
    /\ \E r \in {deserialize(lastOp.data)} :
           lastOp' = [op |-> "deserialize", block |-> lastOp.block,
                      data |-> lastOp.data, change |-> lastOp.change,
                      res |-> r]
    /\ UNCHANGED codecFrame

(***************************************************************************)
(* What happens to the data directory while no store is open on it.        *)
(***************************************************************************)
\* the process stops inside initialize after file 0 was created and written
\* (flat_file_store.rs:61-62) and before Index::initialize is reached
InitializeInterrupted ==
    /\ ~store_open /\ ~index_open
    /\ 0 \notin DOMAIN files
    /\ ~\E f \in DOMAIN files : path_starts_with_sps(data_dir, f)
    /\ files' = [n \in (DOMAIN files) \cup {0} |->
                    IF n = 0 THEN MAGIC_BYTES ELSE files[n]]
    /\ lastOp' = [op |-> "initialize_interrupted"]
    /\ UNCHANGED <<indexVars, data_dir, store_open, current_file_number,
                   reader, chain, last_on_hash, pending>>

\* a block file is missing from the directory the next initialize reads
\* (flat_file_store.rs:46-57 is the test for it)
RemoveBlockFile(file_number) ==
    /\ ~store_open /\ ~index_open
    /\ file_number \in DOMAIN files
    /\ files' = [n \in (DOMAIN files) \ {file_number} |-> files[n]]
    /\ lastOp' = [op |-> "remove_file", file_number |-> file_number]
    /\ UNCHANGED <<indexVars, data_dir, store_open, current_file_number,
                   reader, chain, last_on_hash, pending>>

(***************************************************************************)
(* Specifications.                                                         *)
(***************************************************************************)
\* a FlatFileStore on an initially empty data directory
Next ==
    \/ StoreInitialize
    \/ StoreClose
    \/ \E b \in Blocks, h \in 0..MaxAdds : AddBlock(b, h)
    \/ \E b \in Blocks : GetBlockStream(b.blockhash)
    \/ \E h \in 0..MaxAdds : GetBlockStreamFromHeight(h)
    \/ \E n \in BufLens : Read(n)
    \/ ReadToEnd
    \/ DropReader

Spec == Init /\ [][Next]_vars

\* a stand-alone Index driven with freely chosen hashes
NextIndex ==
    \/ IndexInitialize
    \/ IndexClose
    \/ \E h \in 0..(MaxIndexHeight - 1), H \in Hashes, e \in Entries :
           InsertBlock(h, H, e)
    \/ \E H \in Hashes : RemoveBlock(H)

SpecIndex == Init /\ [][NextIndex]_vars

\* a stand-alone Index filled in sequence, closed and re-opened
NextLong ==
    \/ IndexInitialize
    \/ IndexClose
    \/ InsertNext

SpecLong == Init /\ [][NextLong]_vars

\* the codec alone
NextCodec ==
    \/ Serialize
    \/ \E bit \in 0..(8 * TWEAK_SIZE * MaxTweaks - 1) : FlipBit(bit)
    \/ \E n \in 0..(HASH_SIZE + 8 + TWEAK_SIZE * MaxTweaks - 1) : Truncate(n)
    \/ \E x \in CodecTails : AppendBytes(x)
    \/ Deserialize

SpecCodec == InitCodec /\ [][NextCodec]_vars

\* a FlatFileStore filled in batches
NextBulk ==
    \/ StoreInitialize
    \/ StoreClose
    \/ \E n \in 1..MaxBatch :
           \E blocks \in [1..n -> Blocks], heights \in [1..n -> 0..MaxAdds] :
               AddBlockBulk(blocks, heights)

SpecBulk == Init /\ [][NextBulk]_vars

\* a FlatFileStore opened on directories in every condition initialize
\* tests for: with and without file 0, other block files and the index
NextDir ==
    \/ StoreInitialize
    \/ StoreClose
    \/ \E b \in Blocks, h \in 0..MaxAdds : AddBlock(b, h)
    \/ InitializeInterrupted
    \/ \E n \in 0..MaxAdds : RemoveBlockFile(n)

SpecDir == InitDir /\ [][NextDir]_vars

\* a stand-alone Index whose inserts can be cut short by a crash
NextSteps ==
    \/ IndexInitialize
    \/ IndexClose
    \/ \E h \in 0..(MaxIndexHeight - 1), H \in StepHashes, e \in Entries :
           InsertBegin(h, H, e)
    \/ InsertWrite
    \/ InsertReturn
    \/ Crash
    \/ \E H \in StepHashes : RemoveBlock(H)

SpecSteps == Init /\ [][NextSteps]_vars

(***************************************************************************)
(* Properties.                                                             *)
(***************************************************************************)
NotFound == [ok |-> FALSE, err |-> "EntryNotFound"]
Orphaned == [ok |-> FALSE, err |-> "OrphanedEntry"]
Found(v) == [ok |-> TRUE, val |-> v]

IndexUnchanged ==
    UNCHANGED <<index_db, height_to_hash, hash_to_height, next_height>>

\* C1: insert_block(height, hash, entry) succeeds exactly when height is the
\* next expected height (current_height + 1, which is 0 on an empty index);
\* a success advances the expected height by one, and a failure is
\* InvalidHeight and leaves the three trees and the expected height alone.
C1_InsertIffExpectedHeight ==
    [][lastOp'.op = "insert_block" =>
        LET expected == get_current_height(Idx) + 1
        IN  /\ (DOMAIN height_to_hash = {}) => expected = 0
            /\ (lastOp'.res = "Ok") <=> (lastOp'.height = expected)
            /\ lastOp'.res = "Ok" =>
                   get_current_height(Idx') = get_current_height(Idx) + 1
            /\ lastOp'.res # "Ok" =>
                   lastOp'.res = "InvalidHeight" /\ IndexUnchanged]_vars

\* C1 witness: an insert rejected on an index holding two blocks
C1_Witness ==
    /\ lastOp.op = "insert_block"
    /\ lastOp.res = "InvalidHeight"
    /\ Len(chain) = 2
    /\ next_height = 2

\* C7: when remove_block(H) directly follows a successful insert_block(h, H,
\* E), it succeeds, get_block_entry(H) is OrphanedEntry, both height
\* look-ups are EntryNotFound and current_height() is one less.
C7_RemoveAfterInsertOrphans ==
    [][(/\ lastOp.op = "insert_block" /\ lastOp.res = "Ok"
        /\ lastOp'.op = "remove_block" /\ lastOp'.hash = lastOp.hash) =>
        /\ lastOp'.res = "Ok"
        /\ get_block_entry(Idx', lastOp.hash) = Orphaned
        /\ get_blockhash_by_height(Idx', lastOp.height) = NotFound
        /\ get_height_by_blockhash(Idx', lastOp.hash) = NotFound
        /\ get_current_height(Idx') = get_current_height(Idx) - 1]_vars

\* C7 witness: the tip at height 1 was retracted, its hash is the only
\* orphan and the block below is still recorded
C7_Witness ==
    /\ lastOp.op = "remove_block" /\ lastOp.res = "Ok" /\ lastOp.tip = 1
    /\ get_block_entry(Idx, lastOp.hash) = Orphaned
    /\ Len(chain) = 1
    /\ chain[1].hash # lastOp.hash

\* C8: remove_block(H) for a hash recorded at a height below the tip fails
\* with InvalidHeight and changes nothing in the index.
C8_RemoveBelowTipRejected ==
    [][(/\ lastOp'.op = "remove_block"
        /\ get_height_by_blockhash(Idx, lastOp'.hash).ok
        /\ get_height_by_blockhash(Idx, lastOp'.hash).val
               # get_current_height(Idx)) =>
        /\ lastOp'.res = "InvalidHeight"
        /\ IndexUnchanged]_vars

\* C8 witness: the block at height 0 was refused while height 1 is recorded
C8_Witness ==
    /\ lastOp.op = "remove_block" /\ lastOp.res = "InvalidHeight"
    /\ Len(chain) = 2
    /\ lastOp.hash = chain[1].hash
    /\ get_blockhash_by_height(Idx, 1) = Found(chain[2].hash)

\* C9: when insert_block(h, H2, E2) with another hash directly follows the
\* successful retraction of hash H from the tip height h, it succeeds, H2
\* resolves at height h and H still reports OrphanedEntry.
C9_ReinsertAtRetractedHeight ==
    [][(/\ lastOp.op = "remove_block" /\ lastOp.res = "Ok"
        /\ lastOp'.op = "insert_block"
        /\ lastOp'.height = lastOp.tip
        /\ lastOp'.hash # lastOp.hash) =>
        /\ lastOp'.res = "Ok"
        /\ get_blockhash_by_height(Idx', lastOp.tip) = Found(lastOp'.hash)
        /\ get_height_by_blockhash(Idx', lastOp'.hash) = Found(lastOp.tip)
        /\ get_block_entry(Idx', lastOp'.hash) = Found(lastOp'.entry)
        /\ get_block_entry(Idx, lastOp.hash) = Orphaned
        /\ get_block_entry(Idx', lastOp.hash) = Orphaned]_vars

\* C9 witness: height 1 holds a block again while another hash is orphaned
C9_Witness ==
    /\ lastOp.op = "insert_block" /\ lastOp.res = "Ok" /\ lastOp.height = 1
    /\ \E H \in Hashes : H # lastOp.hash /\ get_block_entry(Idx, H) = Orphaned
    /\ \A i \in 1..Len(chain) : get_block_entry(Idx, chain[i].hash).ok

NoOrphan == \A H \in DOMAIN index_db : index_db[H] # ORPHAN_MARKER

DistinctHashes ==
    \A i, j \in 1..Len(chain) : chain[i].hash = chain[j].hash => i = j

\* the chain was built by inserts at heights 0, 1, ..., N-1 in order
SequentialChain == \A i \in 1..Len(chain) : chain[i].height = i - 1

\* C2: re-opening an Index into which N blocks were inserted at heights
\* 0..N-1 reports was_newly_created = false and current_height() = N-1,
\* for every N, also above 256.
C2_ReopenRecoversHeight ==
    (/\ lastOp.op = "Index_initialize" /\ lastOp.reopened
     /\ SequentialChain) =>
        /\ lastOp.is_new = FALSE
        /\ get_current_height(Idx) = Len(chain) - 1

\* the bytes an index entry designates, <<>> when they are not in the files
RecordAt(fs, entry) ==
    IF /\ entry.file_number \in DOMAIN fs
       /\ entry.offset + entry.length <= Len(fs[entry.file_number])
    THEN Slice(fs[entry.file_number], entry.offset,
               entry.offset + entry.length)
    ELSE <<>>

\* everything a freshly opened stream delivers when drained
Drained(stream) ==
    IF stream.ok THEN read_to_end(files, stream.reader, <<>>).data ELSE <<>>

\* the first Len(p) bytes of s are p
StartsWith(s, p) == Len(s) >= Len(p) /\ Slice(s, 0, Len(p)) = p

\* C3: FlatFileStore::initialize on a data directory in which an earlier
\* store created file 0 and the index and stored N blocks succeeds, with
\* the highest consecutively numbered file active and every stored block
\* retrievable by height.
C3_ReopenStoreSucceeds ==
    (/\ lastOp.op = "initialize"
     /\ lastOp.file0_existed /\ lastOp.index_existed
     /\ Len(chain) >= 1) =>
        /\ lastOp.res = "Ok"
        /\ store_open
        /\ current_file_number = find_highest_file(files, 0)
        /\ \A i \in 1..Len(chain) :
               get_block_stream_from_height(files, Idx, chain[i].height).ok

\* C4: when add_block rotates, the entry recorded for the record names the
\* new active file and the offset just after the magic bytes, and the
\* record's bytes are at that place.
C4_RotatedEntryInNewFile ==
    (lastOp.op = "add_block" /\ lastOp.res = "Ok" /\ lastOp.rotated) =>
        LET e == get_block_entry(Idx, lastOp.hash)
        IN  /\ e.ok
            /\ e.val.file_number = current_file_number
            /\ e.val.offset = Len(MAGIC_BYTES)
            /\ RecordAt(files, e.val) = serialize(BlockOfHash(lastOp.hash))

\* C5: for every stored block the entry of its hash designates exactly the
\* bytes of its serialization, and the stream for its height or hash begins
\* with them and decodes to the block.
C5_EntriesDesignateRecords ==
    store_open =>
        \A i \in 1..Len(chain) :
            LET block == BlockOfHash(chain[i].hash)
                e == get_block_entry(Idx, chain[i].hash)
                by_hash == Drained(get_block_stream(files, Idx,
                                                    chain[i].hash))
                by_height == Drained(get_block_stream_from_height(
                                         files, Idx, chain[i].height))
            IN  /\ e.ok
                /\ RecordAt(files, e.val) = serialize(block)
                /\ StartsWith(by_hash, serialize(block))
                /\ StartsWith(by_height, serialize(block))
                /\ deserialize(by_hash) = [ok |-> TRUE, block |-> block]
                /\ deserialize(by_height) = [ok |-> TRUE, block |-> block]

\* the serializations of the chain's records, in insertion order
RECURSIVE ChainBytes(_)
ChainBytes(c) ==
    IF c = <<>> THEN <<>>
    ELSE serialize(BlockOfHash(Head(c).hash)) \o ChainBytes(Tail(c))

\* the block files that hold at least one record
FilesWithRecords == {n \in DOMAIN files : Len(files[n]) > Len(MAGIC_BYTES)}

\* C6: when the records added at heights 0..N-1 span two or more files,
\* draining the stream opened at the first record yields exactly the
\* concatenation of their serializations.
C6_DrainYieldsConcatenation ==
    (/\ lastOp.op = "read_to_end"
     /\ get_block_stream_from_height(files, Idx, 0).ok
     /\ lastOp.before = get_block_stream_from_height(files, Idx, 0).reader
     /\ SequentialChain /\ DistinctHashes
     /\ Cardinality(FilesWithRecords) >= 2) =>
        lastOp.data = ChainBytes(chain)

\* C10: while only inserts with pairwise distinct hashes have been applied,
\* every inserted triple (h, H, E) is returned by the three look-ups.
C10_LookupsReturnInserted ==
    (index_open /\ NoOrphan /\ DistinctHashes) =>
        \A i \in 1..Len(chain) :
            /\ get_block_entry(Idx, chain[i].hash) = Found(chain[i].entry)
            /\ get_blockhash_by_height(Idx, chain[i].height)
                   = Found(chain[i].hash)
            /\ get_height_by_blockhash(Idx, chain[i].hash)
                   = Found(chain[i].height)

\* C10 witness: two blocks with two hashes and two different locations
C10_Witness ==
    /\ index_open /\ NoOrphan /\ DistinctHashes
    /\ Len(chain) = 2
    /\ chain[1].entry # chain[2].entry

\* C11: when Index::initialize reports a freshly created index while file 0
\* existed before the call, FlatFileStore::initialize ends in the fatal
\* index-vs-file-store inconsistency and no store is returned.
C11_FreshIndexWithFilesIsFatal ==
    (/\ lastOp.op = "initialize"
     /\ lastOp.file0_existed
     /\ lastOp.is_new) =>
        /\ lastOp.res = "panic"
        /\ ~store_open

\* C12: when file 0 is absent and another numbered block file is present,
\* FlatFileStore::initialize returns CorruptDB and creates no file.
C12_GapIsCorruptStore ==
    (/\ lastOp.op = "initialize"
     /\ ~lastOp.file0_existed
     /\ lastOp.files_before # {}) =>
        /\ lastOp.res = "CorruptDB"
        /\ DOMAIN files = lastOp.files_before

\* the position of the first pair of the last batch whose height is not the
\* expected one (0 when every height is)
FirstViolation ==
    LET bad == {i \in 1..Len(lastOp.heights) :
                   lastOp.heights[i] # lastOp.before.index.next_height + i - 1}
    IN  IF bad = {} THEN 0 ELSE CHOOSE i \in bad : \A j \in bad : i <= j

\* the hash's entry is a location whose bytes in the files are the record
Retrievable(block, height) ==
    LET e == get_block_entry(Idx, block.blockhash)
    IN  /\ e.ok
        /\ RecordAt(files, e.val) = serialize(block)
        /\ get_blockhash_by_height(Idx, height) = Found(block.blockhash)

\* C13: when pair k is the first of a batch whose height is not the next
\* expected height, add_block_bulk fails, the pairs before k are stored and
\* retrievable, and the pairs after k have no effect on the files or the
\* index (the outcome is that of the batch cut after pair k).
C13_BulkAbortsAtFirstViolation ==
    (lastOp.op = "add_block_bulk" /\ FirstViolation > 0) =>
        LET k == FirstViolation
            cut == FlatFileStore_add_block_bulk(
                       lastOp.before.files,
                       lastOp.before.current_file_number,
                       lastOp.before.index,
                       SubSeq(lastOp.blocks, 1, k),
                       SubSeq(lastOp.heights, 1, k), 1)
        IN  /\ lastOp.res # "Ok"
            /\ lastOp.applied = k - 1
            /\ \A i \in 1..(k - 1) :
                   Retrievable(lastOp.blocks[i], lastOp.heights[i])
            /\ files = cut.files
            /\ index_db = cut.index.index_db
            /\ height_to_hash = cut.index.height_to_hash
            /\ hash_to_height = cut.index.hash_to_height

\* C14: get_block_entry(H) is EntryNotFound exactly when no insert_block
\* of H ever succeeded, OrphanedEntry exactly when the most recent
\* successful operation on H was remove_block, and the location stored by
\* the most recent successful operation on H when that was insert_block.
C14_EntryTellsLastOperation ==
    index_open =>
        \A H \in Hashes :
            LET got == get_block_entry(Idx, H)
                seen == H \in DOMAIN last_on_hash
            IN  /\ (got = NotFound) <=> ~seen
                /\ (got = Orphaned) <=>
                       (seen /\ last_on_hash[H].op = "remove_block")
                /\ got.ok <=> (seen /\ last_on_hash[H].op = "insert_block")
                /\ got.ok => got.val = last_on_hash[H].entry

\* C14 witness: the three cases side by side on a re-opened index
C14_Witness ==
    /\ index_open
    /\ lastOp.op = "Index_initialize" /\ lastOp.reopened
    /\ \E H \in Hashes : get_block_entry(Idx, H) = NotFound
    /\ \E H \in Hashes : get_block_entry(Idx, H) = Orphaned
    /\ \E H \in Hashes : get_block_entry(Idx, H).ok

\* C15: deserialize(serialize(r)) is r, with the same blockhash and the same
\* tweaks in the same order, for every record of 0..MaxTweaks tweaks; a
\* record without tweaks comes back with an empty tweak sequence.
C15_RoundTrip ==
    (lastOp.op = "deserialize" /\ lastOp.change = "none") =>
        /\ lastOp.res.ok
        /\ lastOp.res.block = lastOp.block
        /\ lastOp.res.block.blockhash = lastOp.block.blockhash
        /\ Len(lastOp.res.block.tweaks) = Len(lastOp.block.tweaks)
        /\ \A i \in 1..Len(lastOp.block.tweaks) :
               lastOp.res.block.tweaks[i] = lastOp.block.tweaks[i]
        /\ lastOp.block.tweaks = <<>> => lastOp.res.block.tweaks = <<>>

\* C15 witness: a record of two different tweaks and a hash of different
\* bytes went through the codec
C15_Witness ==
    /\ lastOp.op = "deserialize" /\ lastOp.change = "none"
    /\ Len(lastOp.block.tweaks) = 2
    /\ lastOp.block.tweaks[1] # lastOp.block.tweaks[2]
    /\ lastOp.block.blockhash[1] # lastOp.block.blockhash[2]

\* C16: for a record with at least one tweak, deserializing its
\* serialization with any single bit of the tweak payload inverted fails
\* with CrcMismatch.
C16_PayloadBitFlipDetected ==
    (lastOp.op = "deserialize" /\ lastOp.change = "flip") =>
        lastOp.res = [ok |-> FALSE, err |-> "CrcMismatch"]

\* C16 witness: the damaged bit was in the last byte of a second tweak
C16_Witness ==
    /\ lastOp.op = "deserialize" /\ lastOp.change = "flip"
    /\ Len(lastOp.block.tweaks) = 2
    /\ lastOp.data[Len(lastOp.data)] # serialize(lastOp.block)[Len(lastOp.data)]
    /\ ~lastOp.res.ok

\* the reader has read its file to the end and the file after
\* current_file_number does not exist
AtEnd(r) ==
    /\ r.open
    /\ r.current_position >= Len(files[r.file])
    /\ (r.current_file_number + 1) \notin DOMAIN files

\* C17: a read on a reader that has exhausted its file while the next
\* numbered file does not exist returns 0 bytes and leaves the reader in
\* that condition, so every later read returns 0 bytes too (no add_block
\* runs while the reader borrows the store).
C17_EndOfStreamIsSticky ==
    [][(/\ AtEnd(reader)
        /\ lastOp'.op \in {"read", "read_to_end"}) =>
        /\ lastOp'.data = <<>>
        /\ files' = files
        /\ AtEnd(reader')]_vars

\* C17 witness: a third read with a non-empty buffer at the end of a store
\* of two files returned nothing
C17_Witness ==
    /\ reader.open
    /\ lastOp.op = "read" /\ lastOp.buf_len = LargeBuf
    /\ lastOp.data = <<>>
    /\ AtEnd(lastOp.before)
    /\ lastOp.before.current_file_number >= lastOp.before.file + 2
    /\ Cardinality(DOMAIN files) >= 2

\* C18: every hash whose entry in index_db is a location has matching
\* entries in height_to_hash and hash_to_height, and every hash whose entry
\* is the orphan marker is no value of height_to_hash and no key of
\* hash_to_height, whatever hashes the caller chose.
C18_TreesAgree ==
    \A H \in DOMAIN index_db :
        IF index_db[H] # ORPHAN_MARKER
        THEN /\ get_height_by_blockhash(Idx, H).ok
             /\ get_blockhash_by_height(
                    Idx, get_height_by_blockhash(Idx, H).val) = Found(H)
        ELSE /\ H \notin DOMAIN hash_to_height
             /\ \A k \in DOMAIN height_to_hash : height_to_hash[k] # H

\* C19: a hash whose entry is the orphan marker keeps it: after any further
\* insert_block or remove_block, an insert_block of the same hash at the
\* expected height included, get_block_entry still returns OrphanedEntry.
C19_OrphanIsPermanent ==
    [][\A H \in Hashes :
          (index_open /\ index_open' /\ get_block_entry(Idx, H) = Orphaned)
              => get_block_entry(Idx', H) = Orphaned]_vars

\* C20: an add_block changes no file below the file that is active when it
\* returns; this includes the add_block that rotates.
C20_SealedFilesImmutable ==
    [][(lastOp'.op = "add_block" /\ lastOp'.res = "Ok") =>
        \A n \in DOMAIN files :
            n < current_file_number' => files'[n] = files[n]]_vars

\* C21: while a store is open on a directory it created, the block files
\* present are exactly those numbered 0..current_file_number, and every
\* block file begins with the magic bytes.
C21_FilesContiguousWithMagic ==
    /\ store_open => DOMAIN files = 0..current_file_number
    /\ \A n \in DOMAIN files : StartsWith(files[n], MAGIC_BYTES)

\* C21 witness: three rotations have happened
C21_Witness ==
    /\ store_open
    /\ current_file_number = 3
    /\ DOMAIN files = 0..3

\* the heights that are keys of height_to_hash
HeightsPresent == {from_le_bytes(k) : k \in DOMAIN height_to_hash}

\* C22: on a live Index the heights present in height_to_hash are exactly
\* 0..current_height() (none when current_height() is -1).
C22_HeightsAreZeroToTip ==
    index_open => HeightsPresent = 0..get_current_height(Idx)

\* C22 witness: after a retraction, with two blocks recorded
C22_Witness ==
    /\ index_open
    /\ \E H \in Hashes : get_block_entry(Idx, H) = Orphaned
    /\ HeightsPresent = {0, 1}
    /\ get_current_height(Idx) = 1

\* an insert_block call that can be, or was, interrupted at this point
Interrupted ==
    IF pending.active THEN {pending}
    ELSE IF lastOp.op = "crash" THEN {lastOp} ELSE {}

\* both height mappings of the block of call c are in the trees
HeightMappingsPresent(c) ==
    /\ TreeGet(height_to_hash, to_le_bytes(c.height, 4)) = [some |-> TRUE, val |-> c.hash]
    /\ TreeGet(hash_to_height, c.hash) = [some |-> TRUE, val |-> to_le_bytes(c.height, 4)]

\* C23: at every point where insert_block can be interrupted, the location
\* entry the call writes for its block is not in index_db unless the
\* height -> hash and hash -> height mappings of that block are both there.
C23_LocationNeverBeforeHeightMappings ==
    \A c \in Interrupted :
        TreeGet(index_db, c.hash) # c.old => HeightMappingsPresent(c)

\* a crash between the last write and the return: all three are there
C23_Witness ==
    /\ lastOp.op = "crash" /\ lastOp.done = 3
    /\ ~lastOp.old.some
    /\ TreeGet(index_db, lastOp.hash).some
    /\ HeightMappingsPresent(lastOp)

\* C24: in every state where insert_block was interrupted after its first
\* write, the height -> hash and hash -> height entries of the new block
\* are both present.
C24_CrashLosesOnlyLocation ==
    (lastOp.op = "crash" /\ lastOp.done >= 1) => HeightMappingsPresent(lastOp)


\* C25: a read, whatever the size of its buffer, leaves the file it was in
\* only if that file had no unread bytes, and the bytes it returns after
\* moving are the bytes of the new file from the end of its magic header.
C25_ReaderMovesOnlyAtEndOfFile ==
    (lastOp.op = "read" /\ reader.open /\ reader.file # lastOp.before.file) =>
        /\ lastOp.before.current_position >= Len(files[lastOp.before.file])
        /\ lastOp.data = Slice(files[reader.file], next_file_start,
                               reader.current_position)

\* C26: for every record and every proper prefix of its serialization,
\* deserialize of the prefix fails with DeserializeError: it returns
\* neither CrcMismatch nor a record.
C26_PrefixIsDeserializeError ==
    (lastOp.op = "deserialize" /\ lastOp.change = "truncate") =>
        lastOp.res = [ok |-> FALSE, err |-> "DeserializeError"]

\* C26 witness: a record of two tweaks was cut inside its second tweak
C26_Witness ==
    /\ lastOp.op = "deserialize" /\ lastOp.change = "truncate"
    /\ Len(lastOp.block.tweaks) = 2
    /\ Len(lastOp.data) > HASH_SIZE + 8 + TWEAK_SIZE
    /\ lastOp.data = Slice(serialize(lastOp.block), 0, Len(lastOp.data))
    /\ ~lastOp.res.ok

\* C29: for every record r and every byte string x of CodecTails,
\* deserialize(serialize(r) ++ x) returns r.
C29_TrailingBytesIgnored ==
    (lastOp.op = "deserialize" /\ lastOp.change = "append") =>
        /\ lastOp.res.ok
        /\ lastOp.res.block = lastOp.block

\* C29 witness: a record of one tweak followed by another whole record
C29_Witness ==
    /\ lastOp.op = "deserialize" /\ lastOp.change = "append"
    /\ Len(lastOp.block.tweaks) = 1
    /\ Len(lastOp.data) = 2 * (HASH_SIZE + 8 + TWEAK_SIZE)
    /\ lastOp.res.ok

\* C27: an add_block call that is rejected for its height leaves every
\* block file as it was: no bytes are appended and no file is created.
C27_RejectedAddLeavesFiles ==
    [][(lastOp'.op = "add_block" /\ lastOp'.res # "Ok") => files' = files]_vars

\* C28: remove_block on a hash that is orphaned returns EntryNotFound and
\* leaves the three trees and the current height as they were.
C28_SecondRemoveChangesNothing ==
    [][(/\ lastOp'.op = "remove_block"
        /\ get_block_entry(Idx, lastOp'.hash) = Orphaned) =>
        /\ lastOp'.res = "EntryNotFound"
        /\ UNCHANGED <<index_db, height_to_hash, hash_to_height, next_height>>
        /\ get_current_height(Idx)' = get_current_height(Idx)]_vars

\* C28 witness: the tip was retracted, then retracted again while another
\* block was below it
C28_Witness ==
    /\ index_open
    /\ lastOp.op = "remove_block" /\ lastOp.res = "EntryNotFound"
    /\ get_block_entry(Idx, lastOp.hash) = Orphaned
    /\ Len(chain) >= 1
    /\ get_current_height(Idx) = 0

=========================================================================
